---- MODULE Spec2Model ----
(***************************************************************************)
(* Model of the evidence synthesis pipeline of PersonC/Synthesis.py: the   *)
(* output validator/repairer (_validate_and_repair), the orchestrator      *)
(* (synthesize), and the module-level lazy engine (get_synthesis_engine).  *)
(***************************************************************************)
EXTENDS Integers, Sequences, FiniteSets, TLC

(***************************************************************************)
(* Bounds of the model.                                                    *)
(***************************************************************************)
MaxEvidence == 2     \* longest evidence list of a request
MaxCited == 2        \* longest evidence_ids array of a driver in the model's text
MaxDrivers == 2      \* longest drivers array in the model's text
MaxList == 1         \* longest limitations / next_steps array in the model's text
MaxRequests == 2     \* requests served by each worker thread

(***************************************************************************)
(* Python values produced by json.loads.  A value carries its type tag t;  *)
(* a dict keeps its keys in insertion order with the values beside them.   *)
(***************************************************************************)
JNull == [t |-> "null"]
JStr(s) == [t |-> "str", s |-> s]
JNum(n) == [t |-> "num", n |-> n]
JArr(items) == [t |-> "arr", items |-> items]
JObj(keys, vals) == [t |-> "obj", keys |-> keys, vals |-> vals]

\* type(v).__name__, as it appears in the interpreter's error messages
PyType(v) ==
  CASE v.t = "null" -> "NoneType"
    [] v.t = "str" -> "str"
    [] v.t = "num" -> "int"
    [] v.t = "arr" -> "list"
    [] v.t = "obj" -> "dict"

\* dict.get(key, default): the default is used only when the key is missing
HasKey(o, k) == \E i \in 1..Len(o.keys) : o.keys[i] = k
Get(o, k, default) ==
  IF HasKey(o, k)
    THEN o.vals[CHOOSE i \in 1..Len(o.keys) : o.keys[i] = k]
    ELSE default

\* the characters of the strings the model's text may put where a list is read
Chars(s) ==
  CASE s = "" -> <<>>
    [] s = "e" -> <<"e">>
    [] s = "e1" -> <<"e", "1">>
    [] s = "e9" -> <<"e", "9">>

\* `for x in v`: a list yields its elements, a str its characters, a dict its
\* keys; None and numbers are not iterable
Iterate(v) ==
  CASE v.t = "arr" -> [exc |-> "none", items |-> v.items]
    [] v.t = "str" ->
         [exc |-> "none",
          items |-> [i \in 1..Len(Chars(v.s)) |-> JStr(Chars(v.s)[i])]]
    [] v.t = "obj" ->
         [exc |-> "none", items |-> [i \in 1..Len(v.keys) |-> JStr(v.keys[i])]]
    [] OTHER ->
         [exc |-> "TypeError",
          msg |-> "'" \o PyType(v) \o "' object is not iterable"]

\* `x in valid_ids` hashes x first: a list or a dict is unhashable
Hashable(v) == v.t \in {"null", "str", "num"}

(***************************************************************************)
(* The raw text of the model.  A text is described by what json.loads does *)
(* with it: it returns a value or raises JSONDecodeError with a message.   *)
(***************************************************************************)
JsonText(v) == [json |-> TRUE, val |-> v]
BadText(err) == [json |-> FALSE, err |-> err]

json_loads(text) ==
  IF text.json
    THEN [exc |-> "none", val |-> text.val]
    ELSE [exc |-> "JSONDecodeError", msg |-> text.err]

(***************************************************************************)
(* pydantic field validation (shared/schemas.py).  pydantic 1 turns a      *)
(* number given for a str field into its text; pydantic 2 rejects it.      *)
(***************************************************************************)
PydanticVersions == {"v1", "v2"}

StrFieldOk(v, ver) == v.t = "str" \/ (v.t = "num" /\ ver = "v1")
StrFieldVal(v) == IF v.t = "str" THEN v.s ELSE ToString(v.n)

RECURSIVE CountBad(_, _)
CountBad(items, ver) ==
  IF items = <<>> THEN 0
  ELSE (IF StrFieldOk(Head(items), ver) THEN 0 ELSE 1) + CountBad(Tail(items), ver)

\* number of errors pydantic reports for a value given to a List[str] field
ListStrFieldErrors(v, ver) == IF v.t = "arr" THEN CountBad(v.items, ver) ELSE 1
ListStrFieldVal(v) == [i \in 1..Len(v.items) |-> StrFieldVal(v.items[i])]

ValidationErrorMsg(n, model) ==
  ToString(n) \o (IF n = 1 THEN " validation error for " ELSE " validation errors for ")
    \o model

(***************************************************************************)
(* SynthesisEngine._validate_and_repair                                    *)
(***************************************************************************)
AttributeErrorGet(v) ==
  [exc |-> "AttributeError",
   msg |-> "'" \o PyType(v) \o "' object has no attribute 'get'"]

\* valid_ids = {ev.id for ev in evidence}
valid_ids(evidence_list) == {evidence_list[i].id : i \in 1..Len(evidence_list)}

\* a comprehension that keeps every cited string, whitelisted or not
RECURSIVE KeepAllCited(_, _)
KeepAllCited(items, ids) ==
  IF items = <<>> THEN <<>>
  ELSE (IF Head(items).t = "str" THEN <<Head(items).s>> ELSE <<>>)
         \o KeepAllCited(Tail(items), ids)

\* a comprehension that keeps only the first occurrence of a whitelisted id
RECURSIVE FilterIdsOnce(_, _)
FilterIdsOnce(items, ids) ==
  IF items = <<>> THEN <<>>
  ELSE (IF Head(items).t = "str" /\ Head(items).s \in ids
          THEN <<Head(items).s>> ELSE <<>>)
         \o FilterIdsOnce(Tail(items), ids \ {IF Head(items).t = "str"
                                                THEN Head(items).s ELSE ""})

\* [eid for eid in ... if eid in valid_ids], the elements being hashable
RECURSIVE FilterIds(_, _)
FilterIds(items, ids) ==
  IF items = <<>> THEN <<>>
  ELSE (IF Head(items).t = "str" /\ Head(items).s \in ids
          THEN <<Head(items).s>> ELSE <<>>)
         \o FilterIds(Tail(items), ids)

\* a turn of the loop that rejects a driver citing an id outside the whitelist
make_driver_strict(d, ids, ver) ==
  IF d.t # "obj" THEN AttributeErrorGet(d)
  ELSE
    LET it == Iterate(Get(d, "evidence_ids", JArr(<<>>)))
        factor == Get(d, "factor", JStr("Unknown factor"))
    IN IF it.exc # "none" THEN it
       ELSE IF \E i \in 1..Len(it.items) : ~Hashable(it.items[i])
         THEN [exc |-> "TypeError", msg |-> "unhashable type"]
       ELSE IF ~StrFieldOk(factor, ver)
                 \/ Len(FilterIds(it.items, ids)) # Len(it.items)
         THEN [exc |-> "ValidationError", msg |-> ValidationErrorMsg(1, "Driver")]
       ELSE [exc |-> "none",
             val |-> [factor |-> StrFieldVal(factor),
                      evidence_ids |-> FilterIds(it.items, ids)]]

\* one turn of the loop over the drivers: the comprehension, then Driver(...)
make_driver(d, ids, ver) ==
  IF d.t # "obj" THEN AttributeErrorGet(d)
  ELSE
    LET it == Iterate(Get(d, "evidence_ids", JArr(<<>>)))
        factor == Get(d, "factor", JStr("Unknown factor"))
    IN IF it.exc # "none" THEN it
       ELSE IF \E i \in 1..Len(it.items) : ~Hashable(it.items[i])
         THEN LET k == CHOOSE i \in 1..Len(it.items) :
                         /\ ~Hashable(it.items[i])
                         /\ \A j \in 1..(i - 1) : Hashable(it.items[j])
              IN [exc |-> "TypeError",
                  msg |-> "unhashable type: '" \o PyType(it.items[k]) \o "'"]
       ELSE IF ~StrFieldOk(factor, ver)
         THEN [exc |-> "ValidationError", msg |-> ValidationErrorMsg(1, "Driver")]
       ELSE [exc |-> "none",
             val |-> [factor |-> StrFieldVal(factor),
                      evidence_ids |-> FilterIds(it.items, ids)]]

\* the loop: the first driver that raises ends it
RECURSIVE build_drivers(_, _, _)
build_drivers(items, ids, ver) ==
  IF items = <<>> THEN [exc |-> "none", val |-> <<>>]
  ELSE LET h == make_driver(Head(items), ids, ver)
       IN IF h.exc # "none" THEN h
          ELSE LET r == build_drivers(Tail(items), ids, ver)
               IN IF r.exc # "none" THEN r
                  ELSE [exc |-> "none", val |-> <<h.val>> \o r.val]

ConfidenceValues == {"High", "Medium", "Low"}

\* a coercion that lets any string through and replaces only other types
coerce_confidence_any_string(parsed) ==
  LET c == Get(parsed, "confidence", JStr("Medium"))
  IN IF c.t = "str" THEN c.s ELSE "Medium"

\* confidence = parsed.get("confidence", "Medium"), coerced when not in the list
coerce_confidence(parsed) ==
  LET c == Get(parsed, "confidence", JStr("Medium"))
  IN IF c.t = "str" /\ c.s \in ConfidenceValues THEN c.s ELSE "Medium"

\* parsed.get(key) or default: the default also replaces an empty array
GetOr(o, k, default) ==
  LET v == Get(o, k, default)
  IN IF v.t = "null" \/ (v.t = "arr" /\ v.items = <<>>) THEN default ELSE v

\* the output built with `parsed.get(key) or default` for the two lists
make_output_or(parsed, drivers, ver) ==
  LET answer == Get(parsed, "answer",
                    JStr("Unable to generate answer from available evidence."))
      limitations == GetOr(parsed, "limitations",
                           JArr(<<JStr("Limited evidence available")>>))
      next_steps == GetOr(parsed, "next_steps",
                          JArr(<<JStr("Collect more detailed data")>>))
      n == (IF StrFieldOk(answer, ver) THEN 0 ELSE 1)
             + ListStrFieldErrors(limitations, ver)
             + ListStrFieldErrors(next_steps, ver)
  IN IF n > 0
       THEN [exc |-> "ValidationError", msg |-> ValidationErrorMsg(n, "SynthesisOut")]
       ELSE [exc |-> "none",
             val |-> [answer |-> StrFieldVal(answer),
                      drivers |-> drivers,
                      confidence |-> coerce_confidence(parsed),
                      limitations |-> ListStrFieldVal(limitations),
                      next_steps |-> ListStrFieldVal(next_steps)]]

\* SynthesisOut(answer=..., drivers=..., confidence=..., limitations=..., next_steps=...)
make_output(parsed, drivers, ver) ==
  LET answer == Get(parsed, "answer",
                    JStr("Unable to generate answer from available evidence."))
      limitations == Get(parsed, "limitations",
                         JArr(<<JStr("Limited evidence available")>>))
      next_steps == Get(parsed, "next_steps",
                        JArr(<<JStr("Collect more detailed data")>>))
      n == (IF StrFieldOk(answer, ver) THEN 0 ELSE 1)
             + ListStrFieldErrors(limitations, ver)
             + ListStrFieldErrors(next_steps, ver)
  IN IF n > 0
       THEN [exc |-> "ValidationError", msg |-> ValidationErrorMsg(n, "SynthesisOut")]
       ELSE [exc |-> "none",
             val |-> [answer |-> StrFieldVal(answer),
                      drivers |-> drivers,
                      confidence |-> coerce_confidence(parsed),
                      limitations |-> ListStrFieldVal(limitations),
                      next_steps |-> ListStrFieldVal(next_steps)]]

\* the body of the try statement
try_body(text, evidence_list, ver) ==
  LET p == json_loads(text)
  IN IF p.exc # "none" THEN p
     ELSE IF p.val.t # "obj" THEN AttributeErrorGet(p.val)
     ELSE LET it == Iterate(Get(p.val, "drivers", JArr(<<>>)))
          IN IF it.exc # "none" THEN it
             ELSE LET ds == build_drivers(it.items, valid_ids(evidence_list), ver)
                  IN IF ds.exc # "none" THEN ds
                     ELSE make_output(p.val, ds.val, ver)

\* the classes `except Exception` catches
ExceptionClasses == {"JSONDecodeError", "AttributeError", "TypeError", "ValidationError"}

\* a handler that names ValueError only
IsValueError(exc) == exc \in {"JSONDecodeError", "ValidationError"}

IsException(exc) == exc \in ExceptionClasses

ParseFailureOut(msg) ==
  [answer |-> "Error: Unable to parse LLM response.",
   drivers |-> <<>>,
   confidence |-> "Low",
   limitations |-> <<"JSON parsing error: " \o msg>>,
   next_steps |-> <<"Retry the query">>]

\* a validation-error output that reports nothing
ValidationErrorOutSilent(msg) ==
  [answer |-> "Error: Unable to generate synthesis.",
   drivers |-> <<>>,
   confidence |-> "Low",
   limitations |-> <<>>,
   next_steps |-> <<>>]

ValidationErrorOut(msg) ==
  [answer |-> "Error: Unable to generate synthesis.",
   drivers |-> <<>>,
   confidence |-> "Low",
   limitations |-> <<"Validation error: " \o msg>>,
   next_steps |-> <<"Check evidence format and retry">>]

\* the try statement with the broad handler written first: it takes every error
validate_and_repair_broad_first(text, evidence_list, ver) ==
  LET r == try_body(text, evidence_list, ver)
  IN IF r.exc = "none" THEN [kind |-> "return", via |-> "normal", out |-> r.val]
     ELSE IF IsException(r.exc)
       THEN [kind |-> "return", via |-> "validation_error",
             out |-> ValidationErrorOut(r.msg)]
     ELSE [kind |-> "raise", exc |-> r.exc, msg |-> r.msg]

\* the try statement with one handler: every error reported as a parse failure
validate_and_repair_one_handler(text, evidence_list, ver) ==
  LET r == try_body(text, evidence_list, ver)
  IN IF r.exc = "none" THEN [kind |-> "return", via |-> "normal", out |-> r.val]
     ELSE IF IsException(r.exc)
       THEN [kind |-> "return", via |-> "parse_failure",
             out |-> ParseFailureOut(r.msg)]
     ELSE [kind |-> "raise", exc |-> r.exc, msg |-> r.msg]

\* the try statement with its two handlers; via names the return statement taken
validate_and_repair(text, evidence_list, ver) ==
  LET r == try_body(text, evidence_list, ver)
  IN IF r.exc = "none" THEN [kind |-> "return", via |-> "normal", out |-> r.val]
     ELSE IF r.exc = "JSONDecodeError"
       THEN [kind |-> "return", via |-> "parse_failure",
             out |-> ParseFailureOut(r.msg)]
     ELSE IF IsException(r.exc)
       THEN [kind |-> "return", via |-> "validation_error",
             out |-> ValidationErrorOut(r.msg)]
     ELSE [kind |-> "raise", exc |-> r.exc, msg |-> r.msg]

(***************************************************************************)
(* Bounded inputs of the validator: evidence lists and raw model texts.    *)
(***************************************************************************)
SeqsUpTo(S, n) == UNION {[1..k -> S] : k \in 0..n}

\* ids the evidence producer may use; "e9" is an id only the model's text uses
EvidenceIds == {"e1", "e"}
\* an Evidence record: period is None or a str, kpis the dict's items in order
\* (the value n standing for the float n.0), highlights a list of str
Ev(id, dimension, period, kpis, highlights) ==
  [id |-> id, dimension |-> dimension, period |-> period, kpis |-> kpis,
   highlights |-> highlights]
\* an Evidence given its id only: the other fields at their defaults
Evidence(id) == Ev(id, "time", JNull, <<>>, <<>>)
EvidenceLists == SeqsUpTo({Evidence(id) : id \in EvidenceIds}, MaxEvidence)

\* a key the model's text leaves out of an object
Missing == [t |-> "missing"]

RECURSIVE DropMissing(_, _)
DropMissing(keys, vals) ==
  IF keys = <<>> THEN [keys |-> <<>>, vals |-> <<>>]
  ELSE LET r == DropMissing(Tail(keys), Tail(vals))
       IN IF Head(vals) = Missing THEN r
          ELSE [keys |-> <<Head(keys)>> \o r.keys, vals |-> <<Head(vals)>> \o r.vals]

MkObj(keys, vals) == LET r == DropMissing(keys, vals) IN JObj(r.keys, r.vals)

\* elements of an evidence_ids array: valid ids, an invented id, a number, a list
CitedElems == {JStr("e1"), JStr("e"), JStr("e9"), JNum(5), JArr(<<>>)}
CitedValues ==
  {JArr(s) : s \in SeqsUpTo(CitedElems, MaxCited)} \cup {Missing, JNull, JStr("e1")}

DriverObj(f, e) == MkObj(<<"factor", "evidence_ids">>, <<f, e>>)
GoodDriver == DriverObj(JStr("price increase"), JArr(<<JStr("e1")>>))

\* elements of a drivers array
HeadDrivers ==
  {DriverObj(JStr("seasonal dip"), e) : e \in CitedValues}
    \cup {DriverObj(f, e) : f \in {Missing, JNum(5), JNull},
                           e \in {Missing, JArr(<<JStr("e1"), JStr("e9")>>)}}
    \cup {JStr("e1"), JNull}
TailDrivers == {GoodDriver, DriverObj(Missing, JArr(<<JStr("e9")>>)), JNum(5)}

DriversValues ==
  {JArr(<<>>)}
    \cup {JArr(<<h>> \o tl) : h \in HeadDrivers,
                              tl \in SeqsUpTo(TailDrivers, MaxDrivers - 1)}
    \cup {Missing, JNull, JNum(5), JStr(""), JStr("e1"), JObj(<<>>, <<>>), GoodDriver}

AnswerValues == {Missing, JStr("X"), JNum(5), JNull}
ConfidenceInputs ==
  {Missing, JStr("High"), JStr("Medium"), JStr("Low"), JStr("high"), JNum(5), JNull}
ListValues(s) ==
  {JArr(a) : a \in SeqsUpTo({JStr(s), JNum(5)}, MaxList)} \cup {Missing, JNull, JStr(s)}

TopObj(a, d, c, l, n) ==
  MkObj(<<"answer", "drivers", "confidence", "limitations", "next_steps">>,
        <<a, d, c, l, n>>)

\* objects whose drivers vary, the other keys all given or all left out
DriverObjects ==
  {TopObj(JStr("X"), d, JStr("High"), JArr(<<JStr("no Q3 data")>>),
          JArr(<<JStr("check again")>>)) : d \in DriversValues}
    \cup {TopObj(Missing, d, Missing, Missing, Missing) : d \in DriversValues}

\* objects whose other keys vary
FieldObjects ==
  {TopObj(a, d, c, l, n) :
     a \in AnswerValues, d \in {Missing, JArr(<<GoodDriver>>), JNull},
     c \in ConfidenceInputs, l \in ListValues("no Q3 data"),
     n \in ListValues("check again")}

\* JSON texts that are not an object
NonObjectTexts == {JsonText(v) : v \in {JArr(<<>>), JStr("e1"), JNum(5), JNull}}

\* texts json.loads rejects: prose, a truncated object, the empty text
BadTexts ==
  {BadText("Expecting value: line 1 column 1 (char 0)"),
   BadText("Expecting ',' delimiter: line 1 column 15 (char 14)"),
   BadText("Unterminated string starting at: line 1 column 12 (char 11)")}

RawTexts ==
  {JsonText(v) : v \in DriverObjects \cup FieldObjects}
    \cup NonObjectTexts \cup BadTexts

(***************************************************************************)
(* SynthesisEngine._build_prompt.  The prompt is kept as its lines; a line  *)
(* is tagged with the format string that produced it.                      *)
(***************************************************************************)
TextLine(s) == [k |-> "text", s |-> s]
BlankLine == TextLine("")
QuestionLine(q) == [k |-> "question", s |-> q]

\* str.upper() on the dimension labels in use
Upper(s) ==
  CASE s = "time" -> "TIME"
    [] s = "region" -> "REGION"
    [] s = "product" -> "PRODUCT"
    [] s = "orders" -> "ORDERS"
    [] s = "Other" -> "OTHER"

\* f"[Evidence ID: {ev.id}] Dimension: {ev.dimension.upper()}", with
\* " | Period: {ev.period}" when the period is neither None nor ""
HeaderLine(ev) ==
  [k |-> "header", id |-> ev.id, dimension |-> Upper(ev.dimension),
   period |-> IF ev.period.t = "str" /\ ev.period.s # "" THEN ev.period.s ELSE ""]

\* f"  - {key}: {value}"
MetricLine(kpi) == [k |-> "metric", key |-> kpi.key, value |-> ToString(kpi.value) \o ".0"]
\* f"  (bullet) {h}"
FindingLine(h) == [k |-> "finding", s |-> h]

\* evidence_block of one element, split at its newlines
evidence_block(ev) ==
  <<BlankLine, HeaderLine(ev)>>
    \o (IF ev.kpis # <<>>
          THEN <<TextLine("Metrics:")>>
                 \o [i \in 1..Len(ev.kpis) |-> MetricLine(ev.kpis[i])]
          ELSE <<>>)
    \o (IF ev.highlights # <<>>
          THEN <<TextLine("Key Findings:")>>
                 \o [i \in 1..Len(ev.highlights) |-> FindingLine(ev.highlights[i])]
          ELSE <<BlankLine>>)

\* "\n\n".join(evidence_text): the blocks in input order, a blank line between
RECURSIVE join_blocks(_)
join_blocks(evidence_list) ==
  IF evidence_list = <<>> THEN <<BlankLine>>
  ELSE IF Len(evidence_list) = 1 THEN evidence_block(Head(evidence_list))
  ELSE evidence_block(Head(evidence_list)) \o <<BlankLine>>
         \o join_blocks(Tail(evidence_list))

PromptHead(q) ==
  <<TextLine("You are a data analyst assistant for Honeywell's Enterprise Data Warehouse. Analyze the provided evidence and explain WHY the situation occurred."),
    BlankLine,
    TextLine("**USER QUESTION:**"),
    QuestionLine(q),
    BlankLine,
    TextLine("**AVAILABLE EVIDENCE:**")>>

InstructionTemplate ==
  <<BlankLine,
    TextLine("**INSTRUCTIONS:**"),
    TextLine("1. Analyze all provided evidence to identify root causes"),
    TextLine("2. Explain WHY the situation occurred, not just what happened"),
    TextLine("3. Identify specific drivers and explain causal relationships"),
    TextLine("4. Cite evidence IDs that support each driver"),
    TextLine("5. Look for correlations across dimensions (time, region, product, orders)"),
    TextLine("6. Assess confidence: High (multiple consistent sources), Medium (limited evidence), Low (insufficient evidence)"),
    TextLine("7. State limitations or assumptions in the analysis"),
    TextLine("8. Suggest next steps for validation or deeper investigation"),
    BlankLine,
    TextLine("**OUTPUT FORMAT (JSON):**"),
    TextLine("{"),
    TextLine("  \"answer\": \"3-4 sentence explanation of WHY this happened, identifying root causes and their impact\","),
    TextLine("  \"drivers\": ["),
    TextLine("    {"),
    TextLine("      \"factor\": \"Specific root cause with causal explanation\","),
    TextLine("      \"evidence_ids\": [\"e1\", \"e2\"]"),
    TextLine("    }"),
    TextLine("  ],"),
    TextLine("  \"confidence\": \"High/Medium/Low\","),
    TextLine("  \"limitations\": [\"Data gaps or assumptions in root cause analysis\"],"),
    TextLine("  \"next_steps\": [\"Suggested analyses to validate root causes\"]"),
    TextLine("}"),
    BlankLine,
    TextLine("**GUARDRAILS:**"),
    TextLine("- Only use information from provided evidence"),
    TextLine("- Do not fabricate numbers or facts"),
    TextLine("- Focus on explaining WHY, not just describing WHAT"),
    TextLine("- Identify causal relationships between dimensions"),
    TextLine("- Cite evidence IDs for transparency"),
    TextLine("- Keep explanation clear and business-focused"),
    BlankLine,
    TextLine("Generate the JSON response:")>>

\* a builder that leaves out an element with neither metrics nor findings
RECURSIVE join_blocks_skip_empty(_)
join_blocks_skip_empty(evidence_list) ==
  IF evidence_list = <<>> THEN <<BlankLine>>
  ELSE IF Head(evidence_list).kpis = <<>> /\ Head(evidence_list).highlights = <<>>
    THEN join_blocks_skip_empty(Tail(evidence_list))
  ELSE evidence_block(Head(evidence_list)) \o <<BlankLine>>
         \o join_blocks_skip_empty(Tail(evidence_list))

build_prompt_skip_empty(q, evidence_list) ==
  [kind |-> "return",
   prompt |-> PromptHead(q) \o join_blocks_skip_empty(evidence_list)
                \o InstructionTemplate]

\* the f-string of _build_prompt: question, evidence, template; no step of it
\* raises on a str question and a list of Evidence
build_prompt(q, evidence_list) ==
  [kind |-> "return",
   prompt |-> PromptHead(q) \o join_blocks(evidence_list) \o InstructionTemplate]

\* bounded inputs of the prompt builder
Questions == {"", "  ", "Why did revenue drop in Q3?"}
Kpi(key, value) == [key |-> key, value |-> value]
PromptEvidence ==
  {Ev("e1", "time", JStr("Q3"), <<Kpi("revenue", 100)>>, <<"Revenue +5% QoQ">>),
   Ev("e1", "region", JNull, <<>>, <<>>),
   Ev("e", "product", JStr(""), <<Kpi("revenue", 100), Kpi("orders", 7)>>, <<>>),
   Ev("e2", "orders", JNull, <<>>, <<"AOV flat", "Volume -3%">>),
   Ev("e3", "Other", JStr("Q2"), <<>>, <<>>)}
PromptEvidenceLists == SeqsUpTo(PromptEvidence, MaxEvidence)

(***************************************************************************)
(* SynthesisEngine.__init__ and the process environment.                   *)
(***************************************************************************)
MaxTokens == 1024

\* Python truth of an optional string: None and "" are false
Truthy(v) == ~(v.t = "null" \/ (v.t = "str" /\ v.s = ""))

\* values of GROQ_API_KEY in the environment: unset, empty, set
EnvKeys == {JNull, JStr(""), JStr("gsk_live")}

\* a constructor that leaves the missing key to be found by the first request
engine_init_lazy(api_key, env) ==
  LET key == IF Truthy(api_key) THEN api_key ELSE env
  IN [exc |-> "none",
      val |-> [api_key |-> IF key.t = "str" THEN key.s ELSE "",
               client |-> "Groq",
               model |-> "llama-3.3-70b-versatile",
               max_tokens |-> MaxTokens, temperature |-> "0.3"]]

\* self.api_key = api_key or os.getenv("GROQ_API_KEY"); raise when it is false
engine_init(api_key, env) ==
  LET key == IF Truthy(api_key) THEN api_key ELSE env
  IN IF ~Truthy(key)
       THEN [exc |-> "ValueError", msg |-> "GROQ_API_KEY not found in environment"]
       ELSE [exc |-> "none",
             val |-> [api_key |-> key.s,
                      client |-> "Groq",
                      model |-> "llama-3.3-70b-versatile",
                      max_tokens |-> MaxTokens, temperature |-> "0.3"]]

(***************************************************************************)
(* State.                                                                  *)
(***************************************************************************)
VARIABLES
  llm_output,      \* validator under test: the raw text given to it
  evidence,        \* validator under test: the evidence list given to it
  result,          \* validator under test: what the call did
  question,        \* prompt builder under test: the question given to it
  built,           \* prompt builder under test: what the call did
  planner_reply,   \* decompose under test: what the planner's LLM call does
  sub_questions,   \* decompose under test: what the call returned
  pydantic,        \* the pydantic major version the process runs with
  env_key,         \* GROQ_API_KEY in the environment of the process
  _engine,         \* the module-level _engine: 0 is None, else an index of engines
  engines,         \* every SynthesisEngine constructed so far, in order
  pc,              \* where each worker thread is in synthesize_endpoint
  request,         \* the SynthesisRequest a thread is serving
  new_engine,      \* the instance a thread has constructed and not yet stored
  engine,          \* the local `engine` of synthesize_answer
  prompts,         \* prompts built during the current call
  prompt,          \* the local `prompt` of synthesize, as its lines
  llm_response,    \* the text _call_llm returned
  llm_error,       \* the error the generative service raised, "" when none
  llm_calls,       \* calls of client.chat.completions.create in the current call
  validate_calls,  \* calls of _validate_and_repair in the current call
  outcome,         \* what the current call returned or raised
  served           \* calls a thread has finished

harness == <<llm_output, evidence, result, question, built, planner_reply, sub_questions>>
shared == <<env_key, _engine, engines>>
locals == <<pc, request, new_engine, engine, prompts, prompt, llm_response, llm_error,
            llm_calls, validate_calls, outcome, served>>
vars == <<llm_output, evidence, result, question, built, planner_reply,
          sub_questions, pydantic, env_key, _engine, engines, pc,
          request, new_engine, engine, prompts, prompt, llm_response, llm_error,
          llm_calls, validate_calls, outcome, served>>

\* the worker threads that run the synchronous endpoint
Threads == {"w1", "w2"}

NotRun == [kind |-> "none"]
NoReply == [kind |-> "none"]
NoRequest == [question |-> "", evidence |-> <<>>]
NoText == BadText("")

\* what the endpoint is asked and what the service answers, in the served process
Requests ==
  {[question |-> "", evidence |-> <<>>],
   [question |-> "Why did revenue drop in Q3?", evidence |-> <<Evidence("e1")>>]}
ServiceTexts ==
  {JsonText(TopObj(JStr("X"),
                   JArr(<<DriverObj(JStr("seasonal dip"),
                                    JArr(<<JStr("e1"), JStr("e9")>>))>>),
                   JStr("High"), JArr(<<>>), JArr(<<JStr("check again")>>))),
   JsonText(TopObj(JStr("X"), JNull, JStr("High"), Missing, Missing)),
   BadText("Expecting value: line 1 column 1 (char 0)")}

InitLocals ==
  /\ pc = [t \in Threads |-> "idle"]
  /\ request = [t \in Threads |-> NoRequest]
  /\ new_engine = [t \in Threads |-> 0]
  /\ engine = [t \in Threads |-> 0]
  /\ prompts = [t \in Threads |-> 0]
  /\ prompt = [t \in Threads |-> <<>>]
  /\ llm_response = [t \in Threads |-> NoText]
  /\ llm_error = [t \in Threads |-> ""]
  /\ llm_calls = [t \in Threads |-> 0]
  /\ validate_calls = [t \in Threads |-> 0]
  /\ outcome = [t \in Threads |-> NotRun]
  /\ served = [t \in Threads |-> 0]

InitShared == _engine = 0 /\ engines = <<>>

\* the served process: any environment, any pydantic
Init ==
  /\ llm_output = NoText /\ evidence = <<>> /\ result = NotRun
  /\ question = "" /\ built = NotRun
  /\ planner_reply = NoReply /\ sub_questions = NotRun
  /\ pydantic \in PydanticVersions
  /\ env_key \in EnvKeys
  /\ InitShared /\ InitLocals

\* the validator alone, on every bounded input
InitValidate ==
  /\ llm_output \in RawTexts /\ evidence \in EvidenceLists /\ result = NotRun
  /\ question = "" /\ built = NotRun
  /\ planner_reply = NoReply /\ sub_questions = NotRun
  /\ pydantic \in PydanticVersions
  /\ env_key = JStr("gsk_live")
  /\ InitShared /\ InitLocals

(***************************************************************************)
(* The validator under test.                                               *)
(***************************************************************************)
Validate ==
  /\ result = NotRun
  /\ result' = validate_and_repair(llm_output, evidence, pydantic)
  /\ UNCHANGED <<llm_output, evidence, question, built, planner_reply, sub_questions,
                 pydantic, shared, locals>>

NextValidate == Validate
SpecValidate == InitValidate /\ [][NextValidate]_vars

(***************************************************************************)
(* The prompt builder under test.                                          *)
(***************************************************************************)
InitPrompt ==
  /\ llm_output = NoText /\ result = NotRun
  /\ question \in Questions /\ evidence \in PromptEvidenceLists /\ built = NotRun
  /\ planner_reply = NoReply /\ sub_questions = NotRun
  /\ pydantic = "v2"
  /\ env_key = JStr("gsk_live")
  /\ InitShared /\ InitLocals

BuildPromptCall ==
  /\ built = NotRun
  /\ built' = build_prompt(question, evidence)
  /\ UNCHANGED <<llm_output, evidence, result, question, planner_reply, sub_questions,
                 pydantic, shared, locals>>

NextPrompt == BuildPromptCall
SpecPrompt == InitPrompt /\ [][NextPrompt]_vars

(***************************************************************************)
(* PersonA/Backend.py: refine_subquestions_with_llm and decompose.         *)
(***************************************************************************)
MaxItems == 2

\* the names bound in Backend.py's module namespace when a request is served:
\* its imports and its own top-level assignments and functions
BackendGlobals ==
  {"load_dotenv", "re", "uuid", "os", "requests", "FastAPI", "APIRouter", "Groq",
   "sys", "_os", "RouteRequest", "RouteResponse", "DecomposeResponse",
   "SubQuestion", "SynthesisRequest", "GROQ_API_KEY", "PLANNER_MODEL",
   "planner_client", "data_router", "synth_router", "app", "health",
   "route_router", "REASONING_PAT", "route", "refine_subquestions_with_llm",
   "decompose", "root", "ask_router", "BASE", "ask"}

\* evaluating a global name: NameError when the module never bound it
NameLookup(name) ==
  IF name \in BackendGlobals
    THEN [exc |-> "none"]
    ELSE [exc |-> "NameError", msg |-> "name '" \o name \o "' is not defined"]

\* str.strip() and str.lower() on the strings the planner's reply may hold
Strip(s) ==
  CASE s = " Time " -> "Time"
    [] s = "  " -> ""
    [] OTHER -> s
Lower(s) ==
  CASE s = "Time" -> "time"
    [] OTHER -> s

\* `x or ""` for x = item.get(key): None, "", 0, [] and {} are false
PyFalsy(v) ==
  \/ v.t = "null"
  \/ v.t = "str" /\ v.s = ""
  \/ v.t = "num" /\ v.n = 0
  \/ v.t = "arr" /\ v.items = <<>>
  \/ v.t = "obj" /\ v.keys = <<>>
OrEmpty(v) == IF PyFalsy(v) THEN JStr("") ELSE v

\* (item.get(key) or "").strip(): only a str has strip
GetStripped(item, key) ==
  LET v == OrEmpty(Get(item, key, JNull))
  IN IF v.t = "str" THEN [exc |-> "none", val |-> Strip(v.s)]
     ELSE [exc |-> "AttributeError",
           msg |-> "'" \o PyType(v) \o "' object has no attribute 'strip'"]

\* the loop over data.get("sub_questions", []): refined[dim] = nlq, a later
\* item replacing an earlier one of the same dimension
RECURSIVE refine_items(_, _)
refine_items(items, refined) ==
  IF items = <<>> THEN [exc |-> "none", val |-> refined]
  ELSE
    LET item == Head(items)
    IN IF item.t # "obj" THEN AttributeErrorGet(item)
       ELSE
         LET dim == GetStripped(item, "dimension")
             nlq == GetStripped(item, "nlq")
         IN IF dim.exc # "none" THEN dim
            ELSE IF nlq.exc # "none" THEN nlq
            ELSE IF Lower(dim.val) # "" /\ nlq.val # ""
              THEN refine_items(Tail(items),
                     [d \in DOMAIN refined \cup {Lower(dim.val)} |->
                        IF d = Lower(dim.val) THEN nlq.val ELSE refined[d]])
            ELSE refine_items(Tail(items), refined)

EmptyMap == [d \in {} |-> ""]

\* the body of the try statement: the create call, json.loads, the loop
refine_try_body(reply) ==
  IF reply.kind = "error" THEN [exc |-> "APIError", msg |-> reply.msg]
  ELSE IF NameLookup("json").exc # "none" THEN NameLookup("json")
  ELSE
    LET p == json_loads(reply.text)
    IN IF p.exc # "none" THEN p
       ELSE IF p.val.t # "obj" THEN AttributeErrorGet(p.val)
       ELSE LET it == Iterate(Get(p.val, "sub_questions", JArr(<<>>)))
            IN IF it.exc # "none" THEN it
               ELSE refine_items(it.items, EmptyMap)

\* refine_subquestions_with_llm: {} without a key and on any exception
refine_subquestions_with_llm(api_key, reply) ==
  IF ~Truthy(api_key) THEN EmptyMap
  ELSE LET r == refine_try_body(reply)
       IN IF r.exc = "none" THEN r.val ELSE EmptyMap

default_pairs ==
  <<[dim |-> "time", nlq |-> "Analyze revenue QoQ across last two quarters."],
    [dim |-> "region", nlq |-> "Compare revenue by region across the last quarter."],
    [dim |-> "product", nlq |-> "Compare revenue by product line for the last quarter."],
    [dim |-> "orders", nlq |-> "Analyze order volume and average order value QoQ."]>>

\* values of uuid.uuid4().hex[:6]
SidValues == {"3f9a1c", "b07e52"}

\* decompose: one SubQuestion per default pair, nlq = refined_map.get(dim, default)
decompose(api_key, reply, sids) ==
  LET refined_map == refine_subquestions_with_llm(api_key, reply)
  IN [kind |-> "return",
      sub_questions |->
        [i \in 1..Len(default_pairs) |->
           [id |-> "q_" \o default_pairs[i].dim \o "_" \o sids[i],
            dimension |-> default_pairs[i].dim,
            nlq |-> IF default_pairs[i].dim \in DOMAIN refined_map
                      THEN refined_map[default_pairs[i].dim]
                      ELSE default_pairs[i].nlq]]]

\* bounded replies of the planner's LLM call
PlannerItem(d, n) == MkObj(<<"dimension", "nlq">>, <<d, n>>)
PlannerItems ==
  {PlannerItem(JStr("time"), JStr("Why did Q3 revenue fall versus Q2?")),
   PlannerItem(JStr(" Time "), JStr("Compare Q3 revenue with Q2.")),
   PlannerItem(JStr("region"), JStr("  ")),
   PlannerItem(JStr("orders"), JNull),
   PlannerItem(JStr("weather"), JStr("Was Q3 unusually hot?")),
   PlannerItem(Missing, JStr("Compare Q3 revenue with Q2.")),
   PlannerItem(JNum(5), JStr("Compare Q3 revenue with Q2.")),
   JStr("e1")}
FullReply ==
  <<PlannerItem(JStr("time"), JStr("Why did Q3 revenue fall versus Q2?")),
    PlannerItem(JStr("region"), JStr("Which regions lost revenue in Q3?")),
    PlannerItem(JStr("product"), JStr("Which product lines lost revenue in Q3?")),
    PlannerItem(JStr("orders"), JStr("Did order volume fall in Q3?"))>>
PlannerContents ==
  {JsonText(MkObj(<<"sub_questions">>, <<v>>)) :
     v \in {JArr(a) : a \in SeqsUpTo(PlannerItems, MaxItems)}
             \cup {JArr(FullReply), Missing, JNull, JNum(5)}}
    \cup {JsonText(JArr(FullReply))} \cup BadTexts
PlannerReplies ==
  {[kind |-> "content", text |-> c] : c \in PlannerContents}
    \cup {[kind |-> "error", msg |-> e] : e \in {"Connection error.", "Error code: 429"}}

InitDecompose ==
  /\ llm_output = NoText /\ evidence = <<>> /\ result = NotRun
  /\ question \in {"Why did revenue drop in Q3?"} /\ built = NotRun
  /\ planner_reply \in PlannerReplies /\ sub_questions = NotRun
  /\ pydantic = "v2"
  /\ env_key \in EnvKeys
  /\ InitShared /\ InitLocals

\* POST /route/decompose
Decompose ==
  /\ sub_questions = NotRun
  /\ \E sids \in [1..Len(default_pairs) -> SidValues] :
       sub_questions' = decompose(env_key, planner_reply, sids)
  /\ UNCHANGED <<llm_output, evidence, result, question, built, planner_reply,
                 pydantic, shared, locals>>

NextDecompose == Decompose
SpecDecompose == InitDecompose /\ [][NextDecompose]_vars

(***************************************************************************)
(* The served process: synthesize_endpoint run by the worker threads.      *)
(***************************************************************************)

\* synthesize_endpoint -> synthesize_answer -> get_synthesis_engine is entered
Request(t) ==
  /\ pc[t] = "idle" /\ served[t] < MaxRequests
  /\ \E r \in Requests : request' = [request EXCEPT ![t] = r]
  /\ pc' = [pc EXCEPT ![t] = "check_engine"]
  /\ UNCHANGED <<harness, pydantic, shared, new_engine, engine, prompts, prompt,
                 llm_response, llm_error, llm_calls, validate_calls, outcome, served>>

\* if _engine is None:
CheckEngine(t) ==
  /\ pc[t] = "check_engine"
  /\ pc' = [pc EXCEPT ![t] = IF _engine = 0 THEN "construct" ELSE "return_engine"]
  /\ UNCHANGED <<harness, pydantic, shared, request, new_engine, engine, prompts, prompt,
                 llm_response, llm_error, llm_calls, validate_calls, outcome, served>>

\* SynthesisEngine(): the right-hand side of the assignment; a ValueError leaves
\* get_synthesis_engine, synthesize_answer and the endpoint
Construct(t) ==
  /\ pc[t] = "construct"
  /\ LET r == engine_init(JNull, env_key)
     IN IF r.exc # "none"
          THEN /\ outcome' = [outcome EXCEPT
                                ![t] = [kind |-> "raise", exc |-> r.exc, msg |-> r.msg]]
               /\ pc' = [pc EXCEPT ![t] = "done"]
               /\ UNCHANGED <<engines, new_engine>>
          ELSE /\ engines' = Append(engines, r.val)
               /\ new_engine' = [new_engine EXCEPT ![t] = Len(engines) + 1]
               /\ pc' = [pc EXCEPT ![t] = "store"]
               /\ UNCHANGED outcome
  /\ UNCHANGED <<harness, pydantic, env_key, _engine, request, engine, prompts, prompt,
                 llm_response, llm_error, llm_calls, validate_calls, served>>

\* _engine = <the new instance>
StoreEngine(t) ==
  /\ pc[t] = "store"
  /\ _engine' = new_engine[t]
  /\ pc' = [pc EXCEPT ![t] = "return_engine"]
  /\ UNCHANGED <<harness, pydantic, env_key, engines, request, new_engine, engine,
                 prompts, prompt, llm_response, llm_error, llm_calls,
                 validate_calls, outcome, served>>

\* return _engine, read again from the module; engine = get_synthesis_engine()
ReturnEngine(t) ==
  /\ pc[t] = "return_engine"
  /\ engine' = [engine EXCEPT ![t] = _engine]
  /\ pc' = [pc EXCEPT ![t] = "build_prompt"]
  /\ UNCHANGED <<harness, pydantic, shared, request, new_engine, prompts, prompt,
                 llm_response, llm_error, llm_calls, validate_calls, outcome, served>>

\* prompt = self._build_prompt(request.question, request.evidence)
BuildPrompt(t) ==
  /\ pc[t] = "build_prompt"
  /\ prompts' = [prompts EXCEPT ![t] = @ + 1]
  /\ prompt' = [prompt EXCEPT
                  ![t] = build_prompt(request[t].question, request[t].evidence).prompt]
  /\ pc' = [pc EXCEPT ![t] = "call_llm"]
  /\ UNCHANGED <<harness, pydantic, shared, request, new_engine, engine,
                 llm_response, llm_error, llm_calls, validate_calls, outcome, served>>

\* llm_response = self._call_llm(prompt): the service answers with a text
CallLlmReturns(t) ==
  /\ pc[t] = "call_llm"
  /\ llm_calls' = [llm_calls EXCEPT ![t] = @ + 1]
  /\ \E text \in ServiceTexts : llm_response' = [llm_response EXCEPT ![t] = text]
  /\ pc' = [pc EXCEPT ![t] = "validate"]
  /\ UNCHANGED <<harness, pydantic, shared, request, new_engine, engine, prompts, prompt,
                 llm_error, validate_calls, outcome, served>>

\* errors of the service call: transport, credentials, rate limit
ServiceErrors == {"Connection error.", "Error code: 429"}

\* a synthesize that catches the failed call and answers with a degraded output
CallLlmFailsDegraded(t) ==
  /\ pc[t] = "call_llm"
  /\ llm_calls' = [llm_calls EXCEPT ![t] = @ + 1]
  /\ \E e \in ServiceErrors :
       /\ llm_error' = [llm_error EXCEPT ![t] = e]
       /\ outcome' = [outcome EXCEPT
                        ![t] = [kind |-> "return", via |-> "validation_error",
                                out |-> ValidationErrorOut("Groq API call failed: " \o e)]]
  /\ pc' = [pc EXCEPT ![t] = "done"]
  /\ UNCHANGED <<harness, pydantic, shared, request, new_engine, engine, prompts, prompt,
                 llm_response, validate_calls, served>>

\* a _call_llm that calls the service again after a failure
CallLlmFailsRetried(t) ==
  /\ pc[t] = "call_llm"
  /\ llm_calls[t] < MaxRequests + 1
  /\ llm_calls' = [llm_calls EXCEPT ![t] = @ + 1]
  /\ \E e \in ServiceErrors : llm_error' = [llm_error EXCEPT ![t] = e]
  /\ UNCHANGED <<harness, pydantic, shared, pc, request, new_engine, engine, prompts, prompt,
                 llm_response, validate_calls, outcome, served>>

\* self._call_llm(prompt): the service call raises; _call_llm raises
\* Exception("Groq API call failed: ..."), which synthesize does not catch
CallLlmFails(t) ==
  /\ pc[t] = "call_llm"
  /\ llm_calls' = [llm_calls EXCEPT ![t] = @ + 1]
  /\ \E e \in ServiceErrors :
       /\ llm_error' = [llm_error EXCEPT ![t] = e]
       /\ outcome' = [outcome EXCEPT
                        ![t] = [kind |-> "raise", exc |-> "Exception",
                                msg |-> "Groq API call failed: " \o e]]
  /\ pc' = [pc EXCEPT ![t] = "done"]
  /\ UNCHANGED <<harness, pydantic, shared, request, new_engine, engine, prompts, prompt,
                 llm_response, validate_calls, served>>

\* a synthesize that keeps the response in a field of the engine, where every
\* call in flight writes its own, and validates what the field holds
ValidateResponseShared(t) ==
  /\ pc[t] = "validate"
  /\ validate_calls' = [validate_calls EXCEPT ![t] = @ + 1]
  /\ \E u \in Threads :
       /\ pc[u] \in {"validate", "done"} /\ llm_error[u] = ""
       /\ validate_calls[u] + llm_calls[u] > 0
       /\ outcome' = [outcome EXCEPT
                        ![t] = validate_and_repair(llm_response[u],
                                                   request[t].evidence, pydantic)]
  /\ pc' = [pc EXCEPT ![t] = "done"]
  /\ UNCHANGED <<harness, pydantic, shared, request, new_engine, engine, prompts, prompt,
                 llm_response, llm_error, llm_calls, served>>

\* synthesis_output = self._validate_and_repair(llm_response, request.evidence)
ValidateResponse(t) ==
  /\ pc[t] = "validate"
  /\ validate_calls' = [validate_calls EXCEPT ![t] = @ + 1]
  /\ outcome' = [outcome EXCEPT
                   ![t] = validate_and_repair(llm_response[t], request[t].evidence,
                                              pydantic)]
  /\ pc' = [pc EXCEPT ![t] = "done"]
  /\ UNCHANGED <<harness, pydantic, shared, request, new_engine, engine, prompts, prompt,
                 llm_response, llm_error, llm_calls, served>>

\* the call has returned or raised: its locals are gone, the thread is free
Finish(t) ==
  /\ pc[t] = "done"
  /\ pc' = [pc EXCEPT ![t] = "idle"]
  /\ request' = [request EXCEPT ![t] = NoRequest]
  /\ new_engine' = [new_engine EXCEPT ![t] = 0]
  /\ engine' = [engine EXCEPT ![t] = 0]
  /\ prompts' = [prompts EXCEPT ![t] = 0]
  /\ prompt' = [prompt EXCEPT ![t] = <<>>]
  /\ llm_response' = [llm_response EXCEPT ![t] = NoText]
  /\ llm_error' = [llm_error EXCEPT ![t] = ""]
  /\ llm_calls' = [llm_calls EXCEPT ![t] = 0]
  /\ validate_calls' = [validate_calls EXCEPT ![t] = 0]
  /\ outcome' = [outcome EXCEPT ![t] = NotRun]
  /\ served' = [served EXCEPT ![t] = @ + 1]
  /\ UNCHANGED <<harness, pydantic, shared>>

Next ==
  \E t \in Threads :
    \/ Request(t)
    \/ CheckEngine(t)
    \/ Construct(t)
    \/ StoreEngine(t)
    \/ ReturnEngine(t)
    \/ BuildPrompt(t)
    \/ CallLlmReturns(t)
    \/ CallLlmFails(t)
    \/ ValidateResponse(t)
    \/ Finish(t)

Spec == Init /\ [][Next]_vars

(***************************************************************************)
(* What the claims about the validator read off the state.                 *)
(***************************************************************************)
Returned == result.kind = "return"
ParsedObject == llm_output.json /\ llm_output.val.t = "obj"
\* the value the model's text gives a top-level key, Missing when it gives none
Field(k) == IF ParsedObject THEN Get(llm_output.val, k, Missing) ELSE Missing
StringArray(v) == v.t = "arr" /\ \A i \in 1..Len(v.items) : v.items[i].t = "str"
StrItems(v) == [i \in 1..Len(v.items) |-> v.items[i].s]
\* the drivers array of the model's text, when it has one
TextDrivers == IF Field("drivers").t = "arr" THEN Field("drivers").items ELSE <<>>
ModelCites(id) ==
  \E i \in 1..Len(TextDrivers) :
    /\ TextDrivers[i].t = "obj"
    /\ Get(TextDrivers[i], "evidence_ids", JNull).t = "arr"
    /\ \E j \in 1..Len(Get(TextDrivers[i], "evidence_ids", JNull).items) :
         Get(TextDrivers[i], "evidence_ids", JNull).items[j] = JStr(id)
InputIds == {evidence[i].id : i \in 1..Len(evidence)}
OutputCites(id) ==
  \E i \in 1..Len(result.out.drivers) :
    \E j \in 1..Len(result.out.drivers[i].evidence_ids) :
      result.out.drivers[i].evidence_ids[j] = id

\* C1: every identifier in every output driver's evidence_ids is the id of an
\* element of the input evidence list, whichever return statement produced the
\* output; an id only the model's text uses never appears.
TheoremC1 ==
  Returned =>
    \A i \in 1..Len(result.out.drivers) :
      \A j \in 1..Len(result.out.drivers[i].evidence_ids) :
        result.out.drivers[i].evidence_ids[j] \in InputIds

\* the model cites a valid and an invented id; the output keeps only the valid one
WitnessC1 ==
  /\ Returned /\ result.via = "normal"
  /\ ModelCites("e9") /\ ModelCites("e1")
  /\ OutputCites("e1") /\ ~OutputCites("e9")

\* C2: _validate_and_repair is total: whatever the raw text and the evidence,
\* the call ends by returning a SynthesisOut; no exception leaves it.
TheoremC2 ==
  result # NotRun =>
    /\ result.kind = "return"
    /\ DOMAIN result.out =
         {"answer", "drivers", "confidence", "limitations", "next_steps"}
    /\ result.out.confidence \in ConfidenceValues

\* a JSON text that is not an object: .get raises AttributeError, which is caught
WitnessC2 ==
  /\ llm_output.json /\ llm_output.val.t # "obj"
  /\ Returned /\ result.via = "validation_error"

\* C3: a text that is not JSON yields the fixed parse-failure output, whatever
\* the evidence: the fixed answer, no drivers, Low, one JSON-parsing-error
\* limitation, and next_steps ["Retry the query"].
TheoremC3 ==
  (result # NotRun /\ ~llm_output.json) =>
    /\ result.kind = "return"
    /\ result.out =
         [answer |-> "Error: Unable to parse LLM response.",
          drivers |-> <<>>,
          confidence |-> "Low",
          limitations |-> <<"JSON parsing error: " \o llm_output.err>>,
          next_steps |-> <<"Retry the query">>]

WitnessC3 ==
  /\ ~llm_output.json /\ evidence # <<>> /\ Returned
  /\ result.out.confidence = "Low" /\ Len(result.out.limitations) = 1

\* the rule of the confidence field: kept when one of the three values, else Medium
ConfidenceRule ==
  IF Field("confidence").t = "str" /\ Field("confidence").s \in ConfidenceValues
    THEN result.out.confidence = Field("confidence").s
    ELSE result.out.confidence = "Medium"

\* C4 as stated: for every text that parses to an object, a confidence field that
\* is absent, of a wrong type or another string gives Medium, and one of the
\* three values is preserved.
OriginalC4 == (result # NotRun /\ ParsedObject) => (Returned /\ ConfidenceRule)

\* C4 amended: the same rule, for the calls that return through the normal
\* return statement (the text parses to an object and no later step raises).
TheoremC4 == (Returned /\ result.via = "normal") => ConfidenceRule

\* a wrongly cased value is coerced, on the normal path
WitnessC4 ==
  /\ Returned /\ result.via = "normal"
  /\ Field("confidence") = JStr("high") /\ result.out.confidence = "Medium"

\* the rule of limitations and next_steps: the default for a missing key, an empty
\* array passed through, a non-empty array of strings unchanged
ListRule(k, outv, default) ==
  /\ Field(k) = Missing => outv = default
  /\ Field(k) = JArr(<<>>) => outv = <<>>
  /\ (StringArray(Field(k)) /\ Field(k).items # <<>>) => outv = StrItems(Field(k))

ListRules ==
  /\ ListRule("limitations", result.out.limitations, <<"Limited evidence available">>)
  /\ ListRule("next_steps", result.out.next_steps, <<"Collect more detailed data">>)

\* C5 as stated: on every successfully parsed object the two lists follow the
\* rule, each independently of the other keys.
OriginalC5 == (result # NotRun /\ ParsedObject) => (Returned /\ ListRules)

\* C5 amended: the two lists follow the rule in the calls that return through
\* the normal return statement.
TheoremC5 == (Returned /\ result.via = "normal") => ListRules

\* limitations present and empty, next_steps missing
WitnessC5 ==
  /\ Returned /\ result.via = "normal"
  /\ Field("limitations") = JArr(<<>>) /\ result.out.limitations = <<>>
  /\ Field("next_steps") = Missing
  /\ result.out.next_steps = <<"Collect more detailed data">>

\* C6 as stated: in every output the two lists are non-empty.
OriginalC6 ==
  Returned => (result.out.limitations # <<>> /\ result.out.next_steps # <<>>)

\* C6 amended: a list of the output is empty exactly when the call returns
\* through the normal return statement and the model's text holds that key with
\* an empty array; in every other output it is non-empty.
TheoremC6 ==
  Returned =>
    /\ result.out.limitations = <<>>
         <=> (result.via = "normal" /\ Field("limitations") = JArr(<<>>))
    /\ result.out.next_steps = <<>>
         <=> (result.via = "normal" /\ Field("next_steps") = JArr(<<>>))

\* the validation-error output and the defaulted lists are non-empty
WitnessC6 ==
  /\ Returned /\ result.via = "validation_error"
  /\ result.out.limitations # <<>> /\ result.out.next_steps # <<>>
  /\ Field("limitations") = JArr(<<>>)

(***************************************************************************)
(* Claims about the served process.                                        *)
(***************************************************************************)
\* C7: when the generative-service call of a synthesize call fails, the failure
\* reaches the caller of synthesize: the call ends by raising the wrapped error,
\* _validate_and_repair is never invoked for it, and no SynthesisOut is returned.
TheoremC7 ==
  \A t \in Threads :
    llm_error[t] # "" =>
      /\ pc[t] = "done"
      /\ outcome[t] = [kind |-> "raise", exc |-> "Exception",
                       msg |-> "Groq API call failed: " \o llm_error[t]]
      /\ validate_calls[t] = 0
      /\ llm_response[t] = NoText

\* a call whose service call failed, after a prompt was built with a live engine
WitnessC7 ==
  \E t \in Threads :
    /\ llm_error[t] = "Connection error." /\ pc[t] = "done"
    /\ prompts[t] = 1 /\ engine[t] # 0 /\ outcome[t].kind = "raise"

\* C8: with no API key passed and none (or an empty one) in the environment,
\* constructing the engine fails: no engine instance ever exists, every
\* synthesize_answer call ends with the ValueError before a prompt is built,
\* and no call to the generative service is issued.
TheoremC8 ==
  ~Truthy(env_key) =>
    /\ engines = <<>> /\ _engine = 0
    /\ \A t \in Threads :
         /\ pc[t] \in {"idle", "check_engine", "construct", "done"}
         /\ engine[t] = 0 /\ new_engine[t] = 0
         /\ prompts[t] = 0 /\ llm_calls[t] = 0 /\ validate_calls[t] = 0
         /\ pc[t] = "done" =>
              outcome[t] = [kind |-> "raise", exc |-> "ValueError",
                            msg |-> "GROQ_API_KEY not found in environment"]

\* a thread's second call fails the same way as its first
WitnessC8 ==
  /\ env_key = JNull
  /\ \E t \in Threads :
       served[t] >= 1 /\ pc[t] = "done" /\ outcome[t].exc = "ValueError"

\* C9 as stated: with a credential configured, the engine is constructed at most
\* once whatever the interleaving and every call uses that one instance.
OriginalC9 ==
  Truthy(env_key) =>
    /\ Len(engines) <= 1
    /\ \A t \in Threads : engine[t] \in {0, 1}

\* C10: a synthesize call makes exactly one call to the generative service,
\* after its prompt is built and before validation; neither a failed call nor a
\* response that fails parsing or validation leads to a second call.
TheoremC10 ==
  \A t \in Threads :
    /\ llm_calls[t] <= 1 /\ validate_calls[t] <= 1 /\ prompts[t] <= 1
    /\ llm_calls[t] = 1 => prompts[t] = 1
    /\ validate_calls[t] = 1 => (llm_calls[t] = 1 /\ llm_error[t] = "")
    /\ pc[t] = "call_llm" => (prompts[t] = 1 /\ llm_calls[t] = 0)
    /\ pc[t] = "validate" => (llm_calls[t] = 1 /\ validate_calls[t] = 0)
    /\ (pc[t] = "done" /\ prompts[t] = 1) => llm_calls[t] = 1

\* a response that fails parsing has been validated after a single service call
WitnessC10 ==
  \E t \in Threads :
    /\ pc[t] = "done" /\ outcome[t].kind = "return"
    /\ outcome[t].via = "parse_failure"
    /\ llm_calls[t] = 1 /\ validate_calls[t] = 1

\* the fields __init__ gives an engine built with the key of the environment
ConstructedFields ==
  [api_key |-> env_key.s, client |-> "Groq", model |-> "llama-3.3-70b-versatile",
   max_tokens |-> MaxTokens, temperature |-> "0.3"]

\* what a finished call returned depends on its own response and evidence only
OwnInputsDecide ==
  \A t \in Threads :
    (pc[t] = "done" /\ outcome[t].kind = "return") =>
      /\ outcome[t] = validate_and_repair(llm_response[t], request[t].evidence, pydantic)
      /\ \A u \in Threads :
           (/\ pc[u] = "done" /\ outcome[u].kind = "return"
            /\ llm_response[u] = llm_response[t]
            /\ request[u].evidence = request[t].evidence) => outcome[u] = outcome[t]

\* C11: concurrent synthesize calls share no mutable state: an engine's fields
\* (model, temperature, max_tokens, client) are never written after construction,
\* and the SynthesisOut of a call is a function of that call's own evidence and
\* own generative response, however the other calls interleave.
TheoremC11 ==
  /\ [](OwnInputsDecide /\ \A i \in 1..Len(engines) : engines[i] = ConstructedFields)
  /\ [][\A i \in 1..Len(engines) : Len(engines') >= i /\ engines'[i] = engines[i]]_vars

\* two calls in flight at once on one engine, with different evidence and
\* different responses, each returned its own output
WitnessC11 ==
  \E t, u \in Threads :
    /\ t # u /\ pc[t] = "done" /\ pc[u] = "done"
    /\ engine[t] # 0 /\ engine[t] = engine[u]
    /\ outcome[t].kind = "return" /\ outcome[u].kind = "return"
    /\ request[t].evidence # request[u].evidence
    /\ llm_response[t] # llm_response[u]
    /\ outcome[t].via = "normal" /\ outcome[u].via = "parse_failure"

(***************************************************************************)
(* C12                                                                     *)
(***************************************************************************)
HeaderLines(p) == SelectSeq(p, LAMBDA l : l.k = "header")
LineIndexes(p, l) == {i \in 1..Len(p) : p[i] = l}
TemplateStart(p) == Len(p) - Len(InstructionTemplate) + 1

\* C12: _build_prompt returns (it never raises); the prompt holds the question
\* line, then one evidence header per element of the evidence list in input
\* order (the ids of the headers are the ids of the input, duplicates
\* included), then the fixed instruction template as its last lines; for an
\* empty evidence list the prompt is still non-empty, holds the question and
\* the template, and holds no evidence header.
TheoremC12 ==
  built # NotRun =>
    /\ built.kind = "return"
    /\ LET p == built.prompt
           h == HeaderLines(p)
       IN /\ p # <<>>
          /\ \E i \in LineIndexes(p, QuestionLine(question)) :
               \A j \in 1..Len(p) :
                 p[j].k \in {"header", "metric", "finding"} =>
                   i < j /\ j < TemplateStart(p)
          /\ TemplateStart(p) >= 1
          /\ SubSeq(p, TemplateStart(p), Len(p)) = InstructionTemplate
          /\ Len(h) = Len(evidence)
          /\ \A i \in 1..Len(h) : h[i] = HeaderLine(evidence[i])
          /\ [i \in 1..Len(h) |-> h[i].id] = [i \in 1..Len(evidence) |-> evidence[i].id]
          /\ evidence = <<>> => \A j \in 1..Len(p) : p[j].k \in {"text", "question"}

\* a prompt was built for two different elements that share one id, the first
\* of them with neither metrics nor findings
WitnessC12 ==
  /\ built # NotRun
  /\ Len(evidence) = 2
  /\ evidence[1].id = evidence[2].id
  /\ evidence[1] # evidence[2]
  /\ evidence[1].kpis = <<>> /\ evidence[1].highlights = <<>>
  /\ question # ""

(***************************************************************************)
(* C13                                                                     *)
(***************************************************************************)
\* the text is JSON and a step after json.loads raises
LaterStepRaises ==
  llm_output.json /\ try_body(llm_output, evidence, pydantic).exc # "none"

\* C13: when the text parses as JSON and a later step raises (the value is not
\* an object, a field has an unexpected type, Driver or SynthesisOut rejects a
\* value), the call returns the validation-error output: its own fixed answer,
\* no drivers, Low, one 'Validation error: ...' limitation carrying the error's
\* message, next_steps ['Check evidence format and retry'], equal to no
\* parse-failure output; the parse-failure output is returned only for a text
\* that is not JSON.
TheoremC13 ==
  result # NotRun =>
    /\ (llm_output.json /\ ~ParsedObject) => LaterStepRaises
    /\ LaterStepRaises =>
         /\ Returned /\ result.via = "validation_error"
         /\ result.out.answer = "Error: Unable to generate synthesis."
         /\ result.out.drivers = <<>>
         /\ result.out.confidence = "Low"
         /\ result.out.limitations =
              <<"Validation error: "
                  \o try_body(llm_output, evidence, pydantic).msg>>
         /\ result.out.next_steps = <<"Check evidence format and retry">>
         /\ \A t \in BadTexts :
              /\ result.out # ParseFailureOut(t.err)
              /\ result.out.answer # ParseFailureOut(t.err).answer
              /\ result.out.next_steps # ParseFailureOut(t.err).next_steps
              /\ result.out.limitations # ParseFailureOut(t.err).limitations
    /\ (Returned /\ result.via = "parse_failure") => ~llm_output.json
    /\ (Returned /\ result.out.answer = "Error: Unable to parse LLM response.")
         => ~llm_output.json

\* a JSON object with well-formed drivers whose answer SynthesisOut rejects
WitnessC13 ==
  /\ ParsedObject
  /\ Field("drivers").t = "arr" /\ Len(Field("drivers").items) > 0
  /\ Field("answer").t \notin {"str", "num", "missing"}
  /\ Returned /\ result.via = "validation_error"
  /\ result.out.next_steps = <<"Check evidence format and retry">>

(***************************************************************************)
(* C14                                                                     *)
(***************************************************************************)
\* the object o with key k set to v
SetKey(o, k, v) ==
  IF HasKey(o, k)
    THEN JObj(o.keys, [i \in 1..Len(o.keys) |-> IF o.keys[i] = k THEN v ELSE o.vals[i]])
    ELSE JObj(Append(o.keys, k), Append(o.vals, v))

\* what the call returns for the same text with drivers an empty array
AsIfDriversEmpty ==
  validate_and_repair(JsonText(SetKey(llm_output.val, "drivers", JArr(<<>>))),
                      evidence, pydantic)

\* C14: when the parsed object has no drivers key, or a drivers value that is
\* not an array, the call returns what it returns for the same object with
\* drivers an empty array: no drivers, and answer, confidence, limitations
\* and next_steps by the normal rules.
OriginalC14 ==
  (result # NotRun /\ ParsedObject /\ Field("drivers").t # "arr") =>
    result = AsIfDriversEmpty

(***************************************************************************)
(* C15                                                                     *)
(***************************************************************************)
\* a driver of the model's text with the documented shape
WellFormedDriver(d) ==
  /\ d.t = "obj"
  /\ Get(d, "factor", JStr("")).t = "str"
  /\ StringArray(Get(d, "evidence_ids", JArr(<<>>)))

\* a response with the documented shape; any key may be left out
WellFormedResponse ==
  /\ ParsedObject
  /\ Field("drivers").t \in {"arr", "missing"}
  /\ \A i \in 1..Len(TextDrivers) : WellFormedDriver(TextDrivers[i])
  /\ Field("answer").t \in {"str", "missing"}
  /\ Field("confidence").t \in {"str", "missing"}
  /\ Field("limitations").t = "missing" \/ StringArray(Field("limitations"))
  /\ Field("next_steps").t = "missing" \/ StringArray(Field("next_steps"))

\* the ids driver d of the model's text cites, in order
CitedIds(d) == StrItems(Get(d, "evidence_ids", JArr(<<>>)))

\* C15: for a well-formed response the call returns normally and the
\* evidence_ids of each output driver is the subsequence of the ids the model
\* cited for that driver that are ids of the input evidence: order kept,
\* nothing added or rewritten, nothing deduplicated; the result depends on the
\* evidence list only through its set of ids.
TheoremC15 ==
  (result # NotRun /\ WellFormedResponse) =>
    /\ Returned /\ result.via = "normal"
    /\ Len(result.out.drivers) = Len(TextDrivers)
    /\ \A i \in 1..Len(TextDrivers) :
         result.out.drivers[i].evidence_ids =
           SelectSeq(CitedIds(TextDrivers[i]), LAMBDA id : id \in InputIds)
    /\ \A other \in EvidenceLists :
         valid_ids(other) = InputIds =>
           validate_and_repair(llm_output, other, pydantic) = result

\* the model cites one valid id twice and the evidence list holds that id
\* twice: the output driver cites it twice
WitnessC15 ==
  /\ result # NotRun /\ WellFormedResponse
  /\ evidence = <<Evidence("e1"), Evidence("e1")>>
  /\ \E i \in 1..Len(TextDrivers) :
       /\ CitedIds(TextDrivers[i]) = <<"e1", "e1">>
       /\ result.out.drivers[i].evidence_ids = <<"e1", "e1">>

(***************************************************************************)
(* C16                                                                     *)
(***************************************************************************)
\* what the output's answer and confidence are by the normal rules
NormalAnswer ==
  IF Field("answer").t = "missing"
    THEN "Unable to generate answer from available evidence."
    ELSE Field("answer").s
NormalConfidence ==
  IF Field("confidence").t = "str" /\ Field("confidence").s \in ConfidenceValues
    THEN Field("confidence").s
    ELSE "Medium"

\* one output driver per driver of the text, in order, factor copied or
\* defaulted; a driver citing only ids outside the evidence keeps no id; the
\* answer, the confidence and the factors are the same under every evidence list
DriversKept ==
  /\ Returned /\ result.via = "normal"
  /\ Len(result.out.drivers) = Len(TextDrivers)
  /\ \A i \in 1..Len(TextDrivers) :
       /\ JStr(result.out.drivers[i].factor) =
            Get(TextDrivers[i], "factor", JStr("Unknown factor"))
       /\ (\A j \in 1..Len(CitedIds(TextDrivers[i])) :
             CitedIds(TextDrivers[i])[j] \notin InputIds)
            => result.out.drivers[i].evidence_ids = <<>>
  /\ result.out.answer = NormalAnswer
  /\ result.out.confidence = NormalConfidence
  /\ \A other \in EvidenceLists :
       LET r == validate_and_repair(llm_output, other, pydantic)
       IN /\ r.kind = "return" /\ r.via = "normal"
          /\ r.out.answer = result.out.answer
          /\ r.out.confidence = result.out.confidence
          /\ Len(r.out.drivers) = Len(result.out.drivers)
          /\ \A i \in 1..Len(r.out.drivers) :
               r.out.drivers[i].factor = result.out.drivers[i].factor

ReplyObject ==
  /\ planner_reply.kind = "content"
  /\ planner_reply.text.json
  /\ planner_reply.text.val.t = "obj"
ReplyItems ==
  IF ReplyObject /\ Get(planner_reply.text.val, "sub_questions", JNull).t = "arr"
    THEN Get(planner_reply.text.val, "sub_questions", JNull).items
    ELSE <<>>
ReplyItemOk(item) ==
  /\ item.t = "obj"
  /\ OrEmpty(Get(item, "dimension", JNull)).t = "str"
  /\ OrEmpty(Get(item, "nlq", JNull)).t = "str"

\* a key is configured, the call returned, and its content is an object whose
\* sub_questions (if any) is an array of items with text or nothing in each field
PlannerSucceeded ==
  /\ Truthy(env_key)
  /\ ReplyObject
  /\ Get(planner_reply.text.val, "sub_questions", JArr(<<>>)).t = "arr"
  /\ \A i \in 1..Len(ReplyItems) : ReplyItemOk(ReplyItems[i])

\* the items of the reply that give dimension dim a non-empty nlq
RefinedAt(dim) ==
  {i \in 1..Len(ReplyItems) :
     /\ Lower(Strip(OrEmpty(Get(ReplyItems[i], "dimension", JNull)).s)) = dim
     /\ Strip(OrEmpty(Get(ReplyItems[i], "nlq", JNull)).s) # ""}
LastRefined(dim) == CHOOSE i \in RefinedAt(dim) : \A j \in RefinedAt(dim) : j <= i

\* the nlq the description gives dimension number k
ExpectedNlq(k) ==
  IF PlannerSucceeded /\ RefinedAt(default_pairs[k].dim) # {}
    THEN Strip(Get(ReplyItems[LastRefined(default_pairs[k].dim)], "nlq", JNull).s)
    ELSE default_pairs[k].nlq

\* C17: decompose returns four sub-questions, time, region, product, orders
\* in that order; the nlq of a dimension is the planner's refined text when
\* the planner call succeeded and gave that dimension a non-empty nlq, and
\* the hardcoded default otherwise; without a key, or when the planner step
\* raises, the mapping is empty and the four defaults are used; dimensions
\* the planner adds never add sub-questions.
OriginalC17 ==
  sub_questions # NotRun =>
    /\ sub_questions.kind = "return"
    /\ Len(sub_questions.sub_questions) = 4
    /\ [k \in 1..4 |-> sub_questions.sub_questions[k].dimension] =
         <<"time", "region", "product", "orders">>
    /\ \A k \in 1..4 : sub_questions.sub_questions[k].nlq = ExpectedNlq(k)
    /\ ~PlannerSucceeded =>
         /\ refine_subquestions_with_llm(env_key, planner_reply) = EmptyMap
         /\ \A k \in 1..4 : sub_questions.sub_questions[k].nlq = default_pairs[k].nlq

====
